---- MODULE Spec2Model ----
(***************************************************************************)
(* Gmail classifier agent: the poll -> classify -> label -> persist cycle  *)
(* of EmailClassifierAgent (email_classifier_agent.py), its state file,    *)
(* the mailbox calls of GmailClient (gmail_client.py) and the classifier   *)
(* collaborator (openrouter_classifier.py).                                *)
(*                                                                         *)
(* Time is counted in whole days.  A timestamp is the day on which         *)
(* datetime.now(timezone.utc) was read; BadTs stands for a string that     *)
(* datetime.fromisoformat rejects.                                         *)
(***************************************************************************)
EXTENDS Integers, Sequences, FiniteSets, TLC

\* ------------------------------------------------------------------ bounds
NumMsgs == 3
MaxDay == 2
MaxLabels == 2
MaxFaults == 1

\* ------------------------------------------------- configuration (config.py)
\* values the environment sets: a batch of up to three messages, two labels,
\* retention disabled or of one day, a poll interval of a minute or (no check
\* rejects it) a negative one
MAX_EMAILS_PER_POLL == 3
LABELS == <<"AWS", "Finance">>
RetentionChoices == {0, 1}
PollIntervalChoices == {-1, 60}

\* config.MAX_EMAILS_PER_POLL as the environment may set it: a batch that
\* takes the whole mailbox, or a smaller one
BatchSizeChoices == {2, MAX_EMAILS_PER_POLL}

\* ------------------------------------------------------------ value domains
Ids == 1..NumMsgs
NoId == 0
BadTs == -1
LabelSet == {LABELS[i] : i \in 1..Len(LABELS)}

\* create_label_if_not_exists returns the Gmail id of the label
GmailLabelId(name) ==
    CASE name = "AWS" -> "Label_1"
      [] name = "Finance" -> "Label_2"
      [] OTHER -> "Label_3"

RECURSIVE SeqsUpTo(_, _)
SeqsUpTo(S, n) ==
    IF n = 0 THEN {<<>>}
    ELSE LET shorter == SeqsUpTo(S, n - 1)
         IN  shorter \cup {Append(s, x) : s \in {t \in shorter : Len(t) = n - 1}, x \in S}

\* What self.classifier.classify_email can do: raise (a classifier that lets
\* an error escape), fail in the backend call (caught in classify_email, which
\* then returns []), or return the parsed label list
ClassifierOutcomes ==
    {[kind |-> "raise", labels |-> <<>>], [kind |-> "backend_error", labels |-> <<>>]}
    \cup {[kind |-> "labels", labels |-> L] : L \in SeqsUpTo(LabelSet, MaxLabels)}

\* A message dict: its "id" (NoId: no id key) and whether it has a "subject" key
NoMsg == [id |-> NoId, subject |-> FALSE]
AnyMessage == [id : Ids \cup {NoId}, subject : BOOLEAN]
MailboxMessage(i) == [id |-> i, subject |-> TRUE]

EmptyLedger == [i \in {} |-> 0]
AbsentFile == [kind |-> "absent", entries |-> EmptyLedger]
PartialFile == [kind |-> "partial", entries |-> EmptyLedger]

\* a "processed_emails" value that is neither a list nor an object (a string,
\* a number, null)
NotAMapping == [i \in {NoId} |-> BadTs]

\* no function has been called on its own
NoCall == [fn |-> "none", arg |-> <<>>]
NoOut == [kind |-> "none", val |-> <<>>]

VARIABLES
    pc,               \* position of the process
    running,          \* TRUE inside run_continuous
    now,              \* current day
    retention_days,   \* config.STATE_RETENTION_DAYS
    remove_from_inbox,\* config.REMOVE_FROM_INBOX
    poll_interval,    \* config.POLL_INTERVAL_SECONDS
    max_emails_per_poll, \* config.MAX_EMAILS_PER_POLL
    processed_emails, \* self.processed_emails: id -> timestamp
    label_id_map,     \* self.label_id_map: label name -> Gmail label id
    state_file,       \* contents of config.STATE_FILE
    labelled,         \* ids of the messages a messages().modify call has labelled
    batch,            \* messages of the current poll still to process
    cur,              \* message process_email is working on
    predicted_labels, \* label names the classifier returned for cur
    label_ids,        \* label ids process_email is about to apply
    ret,              \* value process_email returns once the save is over
    result,           \* value returned by the last process_email call
    ev,               \* what the last step did
    label_called,     \* ids for which add_labels_to_message has been called
    raised,           \* ids whose process_email ended in its except clause
                      \* during the current poll cycle
    backend_failed,   \* ids whose last classification failed in the backend
    faults,           \* failures injected so far (at most MaxFaults)
    call,             \* a function called on its own: its name and argument
    out               \* what that call returned

vars == <<pc, running, now, retention_days, remove_from_inbox, poll_interval,
          max_emails_per_poll,
          processed_emails, label_id_map, state_file, labelled, batch, cur,
          predicted_labels, label_ids, ret, result, ev, label_called, raised, backend_failed,
          faults, call, out>>

\* ---------------------------------------------------------------- the ledger
\* (mutant) the ledger check never finds the id
InLedgerNever(id, ledger) == FALSE

\* "email_id in self.processed_emails"
InLedger(id, ledger) == id \in DOMAIN ledger

\* (mutant) recording an id stamps every entry of the ledger anew
MarkProcessedAll(ledger, id, t) == [i \in DOMAIN ledger \cup {id} |-> t]

\* "self.processed_emails[email_id] = datetime.now(timezone.utc).isoformat()"
MarkProcessed(ledger, id, t) ==
    [i \in DOMAIN ledger \cup {id} |-> IF i = id THEN t ELSE ledger[i]]

Restrict(ledger, S) == [i \in S |-> ledger[i]]

\* (mutant) an entry whose timestamp cannot be parsed is kept
CleanupKeepsCorrupt(ledger, retention, today) ==
    IF retention <= 0 THEN ledger
    ELSE Restrict(ledger, {i \in DOMAIN ledger :
                             ledger[i] = BadTs \/ ledger[i] >= today - retention})

\* (mutant) the cutoff day itself counts as too old
CleanupStrict(ledger, retention, today) ==
    IF retention <= 0 THEN ledger
    ELSE Restrict(ledger, {i \in DOMAIN ledger :
                             ledger[i] # BadTs /\ ledger[i] > today - retention})

\* _cleanup_old_state
CleanupOldState(ledger, retention, today) ==
    IF retention <= 0 THEN ledger
    ELSE Restrict(ledger, {i \in DOMAIN ledger :
                             ledger[i] # BadTs /\ ledger[i] >= today - retention})

\* (mutant) the state file is ignored
LoadStateFresh(file, retention, today) == EmptyLedger

\* (mutant) a legacy list is migrated with the epoch as its timestamp
LoadStateEpoch(file, retention, today) ==
    CASE file.kind = "list" ->
            CleanupOldState([i \in DOMAIN file.entries |-> 0], retention, today)
      [] file.kind = "dict" -> CleanupOldState(file.entries, retention, today)
      [] file.kind = "scalar" -> IF retention <= 0 THEN NotAMapping ELSE EmptyLedger
      [] OTHER -> EmptyLedger

\* _load_state.  File kinds: absent; partial (cut short by an interrupted
\* write) and garbage (not JSON): json.load raises; not_object (JSON whose top
\* level is not an object): state_data.get raises; no_key (an object without
\* "processed_emails"); scalar ("processed_emails" is a string, a number or
\* null): _cleanup_old_state returns it as it is when retention is disabled,
\* else its .items() raises; list (legacy format); dict (current format).
\* Every exception is caught and gives {}
LoadState(file, retention, today) ==
    CASE file.kind = "absent" -> EmptyLedger
      [] file.kind \in {"partial", "garbage", "not_object"} -> EmptyLedger
      [] file.kind = "no_key" -> CleanupOldState(EmptyLedger, retention, today)
      [] file.kind = "scalar" -> IF retention <= 0 THEN NotAMapping ELSE EmptyLedger
      [] file.kind = "list" ->
            CleanupOldState([i \in DOMAIN file.entries |-> today], retention, today)
      [] file.kind = "dict" -> CleanupOldState(file.entries, retention, today)

\* json.dump({"processed_emails": self.processed_emails})
StateData(ledger) == [kind |-> "dict", entries |-> ledger]

\* (mutant) a name without an entry in label_id_map is given an id as well
LabelIdsAll(predicted, map) == [n \in 1..Len(predicted) |-> GmailLabelId(predicted[n])]

\* the label ids of the predicted names that have an entry in label_id_map
RECURSIVE LabelIdsOf(_, _)
LabelIdsOf(predicted, map) ==
    IF predicted = <<>> THEN <<>>
    ELSE LET rest == LabelIdsOf(Tail(predicted), map)
         IN  IF Head(predicted) \in DOMAIN map
             THEN <<map[Head(predicted)]>> \o rest
             ELSE rest

\* (mutant) a labelled message leaves the inbox whatever the configuration
InboxAlwaysArchived(done, archive) == Ids \ done

\* The messages carrying INBOX and UNREAD: every message of the mailbox is
\* unread, and a successful modify call with removeLabelIds ["INBOX"]
\* archives the message
Inbox(done, archive) == IF archive THEN Ids \ done ELSE Ids

\* get_unread_messages lists the first max_results unread inbox messages
RECURSIVE SortedSeq(_)
SortedSeq(S) ==
    IF S = {} THEN <<>>
    ELSE LET m == CHOOSE x \in S : \A y \in S : x <= y
         IN  <<m>> \o SortedSeq(S \ {m})

FirstN(s, n) == SubSeq(s, 1, IF Len(s) < n THEN Len(s) ELSE n)

ListUnread(box, max_results) == FirstN(SortedSeq(box), max_results)

\* the listed messages whose details could be fetched (set kept)
RECURSIVE Details(_, _)
Details(listed, kept) ==
    IF listed = <<>> THEN <<>>
    ELSE IF Head(listed) \in kept
         THEN <<MailboxMessage(Head(listed))>> \o Details(Tail(listed), kept)
         ELSE Details(Tail(listed), kept)

RetStr(b) == IF b THEN "True" ELSE "False"

\* ------------------------------------------------------------------- states
Init ==
    /\ pc = "down"
    /\ running = FALSE
    /\ now = 0
    /\ retention_days \in RetentionChoices
    /\ remove_from_inbox \in BOOLEAN
    /\ poll_interval \in PollIntervalChoices
    /\ max_emails_per_poll \in BatchSizeChoices
    /\ processed_emails = EmptyLedger
    /\ label_id_map = EmptyLedger
    /\ state_file = AbsentFile
    /\ labelled = {}
    /\ batch = <<>>
    /\ cur = NoMsg
    /\ predicted_labels = <<>>
    /\ label_ids = <<>>
    /\ ret = FALSE
    /\ result = "none"
    /\ ev = "init"
    /\ label_called = {}
    /\ raised = {}
    /\ backend_failed = {}
    /\ faults = 0
    /\ call = NoCall
    /\ out = NoOut

config_vars == <<retention_days, remove_from_inbox, poll_interval, max_emails_per_poll>>

call_vars == <<call, out>>

\* A step in which a collaborator fails (a request errors, a write fails, the
\* process is killed) uses up one of the MaxFaults failures of a behaviour
Fault == faults < MaxFaults /\ faults' = faults + 1

NoFault == faults' = faults

\* _initialize_labels: label_id_map has the labels whose
\* create_label_if_not_exists call returned an id
LabelIdMap(created) == [n \in created |-> GmailLabelId(n)]

\* EmailClassifierAgent.__init__: create the labels (the call for the first
\* label may fail with an HttpError), load the state file
Start ==
    /\ pc \in {"down", "stopped"}
    /\ \/ label_id_map' = LabelIdMap(LabelSet) /\ NoFault
       \/ label_id_map' = LabelIdMap(LabelSet \ {LABELS[1]}) /\ Fault
    /\ processed_emails' = LoadState(state_file, retention_days, now)
    /\ pc' = "idle"
    /\ ev' = "start"
    /\ UNCHANGED <<running, now, config_vars, call_vars, state_file, labelled, batch, cur,
                   predicted_labels, label_ids, ret, result, label_called, raised, backend_failed>>

\* main: agent.run_continuous()
RunContinuous ==
    /\ pc = "idle"
    /\ pc' = "loop_top"
    /\ running' = TRUE
    /\ ev' = "run"
    /\ UNCHANGED <<now, config_vars, call_vars, processed_emails, label_id_map, state_file,
                   labelled, batch, cur, predicted_labels, label_ids, ret, result, label_called,
                   raised, backend_failed, faults>>

\* run_continuous, top of the loop body: prune the ledger, fetch the unread
\* messages (an HttpError of the list request, or of the get request of one
\* message, shortens the list)
CycleStart ==
    /\ pc = "loop_top"
    /\ processed_emails' = CleanupOldState(processed_emails, retention_days, now)
    /\ LET unread == Inbox(labelled, remove_from_inbox)
           listed == ListUnread(unread, max_emails_per_poll)
       IN  \/ batch' = Details(listed, unread) /\ NoFault
           \/ /\ \E kept \in (SUBSET unread) \ {unread} :
                    batch' = Details(listed, kept)
              /\ Fault
    /\ pc' = IF batch' = <<>> THEN "sleep" ELSE "batch"
    /\ ev' = "poll"
    /\ raised' = {}
    /\ UNCHANGED <<running, now, config_vars, call_vars, label_id_map, state_file, labelled,
                   cur, predicted_labels, label_ids, ret, result, label_called, backend_failed>>

\* run_continuous: an exception other than HttpError escapes
\* get_unread_messages and is caught at the loop's except clause
CycleError ==
    /\ pc = "loop_top"
    /\ processed_emails' = CleanupOldState(processed_emails, retention_days, now)
    /\ Fault
    /\ pc' = "sleep"
    /\ ev' = "cycle_error"
    /\ raised' = {}
    /\ UNCHANGED <<running, now, config_vars, call_vars, label_id_map, state_file, labelled,
                   batch, cur, predicted_labels, label_ids, ret, result, label_called, backend_failed>>

\* time.sleep(POLL_INTERVAL_SECONDS); the day may change meanwhile
Sleep ==
    /\ pc = "sleep"
    /\ poll_interval >= 0
    /\ \E d \in {now, now + 1} : d <= MaxDay /\ now' = d
    /\ pc' = "loop_top"
    /\ ev' = "sleep"
    /\ cur' = NoMsg
    /\ result' = "none"
    /\ UNCHANGED <<running, config_vars, call_vars, processed_emails, label_id_map,
                   state_file, labelled, batch, predicted_labels, label_ids, ret, label_called,
                   raised, backend_failed, faults>>

\* (mutant) a message without an id reported as a success
NoIdResultTrue == TRUE

\* the value returned for a message without an id
NoIdResult == FALSE

\* the value of "return True" for an id already in the ledger
SkipResult == TRUE

\* (mutant) an empty prediction reported as a success
EmptyResultTrue == TRUE

\* the value returned when no labels were predicted
EmptyResult == FALSE

\* (mutant) the except clause reports a success
CaughtResultTrue == TRUE

\* the value returned from the except clause of process_email
CaughtResult == FALSE

\* process_email returns r to its caller: the for loop of run_continuous goes
\* on with the next message, a direct caller gets control back
Return(r) ==
    /\ result' = RetStr(r)
    /\ predicted_labels' = <<>>
    /\ label_ids' = <<>>
    /\ ret' = FALSE
    /\ IF running
       THEN /\ batch' = Tail(batch)
            /\ pc' = IF Tail(batch) = <<>> THEN "sleep" ELSE "batch"
       ELSE /\ batch' = batch
            /\ pc' = "idle"

\* process_email writes the ledger entry of id and goes on to _save_state
MarkAndSave(id, r) ==
    /\ processed_emails' = MarkProcessed(processed_emails, id, now)
    /\ ret' = r
    /\ pc' = "save_open"
    /\ predicted_labels' = <<>>
    /\ label_ids' = <<>>
    /\ UNCHANGED <<batch, result>>

\* (mutant) process_email has no except clause: the error reaches the except
\* clause of run_continuous, which ends the cycle
CaughtAborts(id) ==
    /\ result' = "none"
    /\ predicted_labels' = <<>>
    /\ label_ids' = <<>>
    /\ ret' = FALSE
    /\ batch' = <<>>
    /\ pc' = IF running THEN "sleep" ELSE "idle"
    /\ raised' = IF running THEN raised \cup {id} ELSE raised

\* the except clause of process_email: the error is logged, False returned
Caught(id) ==
    /\ Return(CaughtResult)
    /\ raised' = IF running THEN raised \cup {id} ELSE raised

\* (mutant) _save_state lets the error out, into the except clause of
\* process_email
SaveFailedRaises == Return(CaughtResult)

\* the except clause of _save_state: the error is logged and process_email
\* goes on to its return statement
SaveFailed == Return(ret)

\* what classify_email hands back to process_email: the parsed labels, or []
\* after a backend failure
PredictedLabels(o) == IF o.kind = "labels" THEN o.labels ELSE <<>>

\* process_email after the classifier answered with outcome o
Classified(e, o) ==
    \/ /\ o.kind = "raise"
       /\ Fault
       /\ Caught(e.id)
       /\ ev' = "classify_raise"
       /\ UNCHANGED <<processed_emails, backend_failed>>
    \/ /\ o.kind = "backend_error"
       /\ Fault
       /\ MarkAndSave(e.id, EmptyResult)
       /\ ev' = "classify_backend_error"
       /\ backend_failed' = backend_failed \cup {e.id}
       /\ UNCHANGED raised
    \/ /\ o.kind = "labels"
       /\ PredictedLabels(o) = <<>>
       /\ NoFault
       /\ MarkAndSave(e.id, EmptyResult)
       /\ ev' = "classify_empty"
       /\ backend_failed' = backend_failed \ {e.id}
       /\ UNCHANGED raised
    \/ /\ o.kind = "labels"
       /\ PredictedLabels(o) # <<>>
       /\ NoFault
       /\ predicted_labels' = PredictedLabels(o)
       /\ label_ids' = LabelIdsOf(PredictedLabels(o), label_id_map)
       /\ pc' = "apply"
       /\ ev' = "classify_labels"
       /\ backend_failed' = backend_failed \ {e.id}
       /\ UNCHANGED <<processed_emails, batch, ret, result, raised>>

\* process_email(e), up to the classifier's answer
ProcessEmail(e) ==
    /\ cur' = e
    /\ UNCHANGED <<running, now, config_vars, call_vars, label_id_map, state_file, labelled,
                   label_called>>
    /\ \/ /\ e.id = NoId
          /\ Return(NoIdResult)
          /\ ev' = "no_id"
          /\ UNCHANGED <<processed_emails, raised, backend_failed, faults>>
       \/ /\ e.id # NoId
          /\ InLedger(e.id, processed_emails)
          /\ e.subject
          /\ Return(SkipResult)
          /\ ev' = "skip"
          /\ UNCHANGED <<processed_emails, raised, backend_failed, faults>>
       \/ /\ e.id # NoId
          /\ ~e.subject
          /\ Caught(e.id)
          /\ ev' = "key_error"
          /\ UNCHANGED <<processed_emails, backend_failed, faults>>
       \/ /\ e.id # NoId
          /\ ~InLedger(e.id, processed_emails)
          /\ e.subject
          /\ \E o \in ClassifierOutcomes : Classified(e, o)

\* process_email from "if label_ids:" to the ledger entry: the modify request
\* succeeds, fails with an HttpError (logged inside add_labels_to_message), or
\* fails with another exception, which reaches process_email
ApplyLabels ==
    /\ pc = "apply"
    /\ UNCHANGED <<running, now, config_vars, call_vars, label_id_map, state_file, cur,
                   backend_failed>>
    /\ \/ /\ label_ids = <<>>
          /\ MarkAndSave(cur.id, TRUE)
          /\ ev' = "no_label_ids"
          /\ UNCHANGED <<labelled, label_called, raised, faults>>
       \/ /\ label_ids # <<>>
          /\ label_called' = label_called \cup {cur.id}
          /\ \/ /\ labelled' = labelled \cup {cur.id}
                /\ MarkAndSave(cur.id, TRUE)
                /\ ev' = "apply_ok"
                /\ NoFault
                /\ UNCHANGED raised
             \/ /\ MarkAndSave(cur.id, TRUE)
                /\ ev' = "apply_http_error"
                /\ Fault
                /\ UNCHANGED <<labelled, raised>>
             \/ /\ Caught(cur.id)
                /\ ev' = "apply_raise"
                /\ Fault
                /\ UNCHANGED <<labelled, processed_emails>>

\* _save_state up to open(self.state_file, "w"), which truncates the file;
\* os.makedirs or open may fail, which is logged
SaveOpen ==
    /\ pc = "save_open"
    /\ UNCHANGED <<running, now, config_vars, call_vars, processed_emails, label_id_map,
                   labelled, cur, label_called, raised, backend_failed>>
    /\ \/ /\ state_file' = PartialFile
          /\ pc' = "save_write"
          /\ ev' = "save_open"
          /\ NoFault
          /\ UNCHANGED <<batch, predicted_labels, label_ids, ret, result>>
       \/ /\ SaveFailed
          /\ ev' = "save_open_failed"
          /\ Fault
          /\ UNCHANGED state_file

\* _save_state: json.dump writes the document (or fails, which is logged),
\* then process_email returns
SaveWrite ==
    /\ pc = "save_write"
    /\ UNCHANGED <<running, now, config_vars, call_vars, processed_emails, label_id_map,
                   labelled, cur, label_called, raised, backend_failed>>
    /\ \/ /\ state_file' = StateData(processed_emails)
          /\ Return(ret)
          /\ ev' = "saved"
          /\ NoFault
       \/ /\ SaveFailed
          /\ ev' = "save_write_failed"
          /\ Fault
          /\ UNCHANGED state_file

\* the process ends: everything held in memory is gone
MemoryLost ==
    /\ running' = FALSE
    /\ processed_emails' = EmptyLedger
    /\ label_id_map' = EmptyLedger
    /\ batch' = <<>>
    /\ cur' = NoMsg
    /\ predicted_labels' = <<>>
    /\ label_ids' = <<>>
    /\ ret' = FALSE
    /\ result' = "none"
    /\ raised' = {}
    /\ UNCHANGED <<now, config_vars, call_vars, state_file, labelled, label_called,
                   backend_failed>>

\* the process is killed (or the machine stops) at any point
Crash ==
    /\ pc \notin {"down", "stopped"}
    /\ pc' = "down"
    /\ ev' = "crash"
    /\ Fault
    /\ MemoryLost

\* KeyboardInterrupt: no "except Exception" catches it; run_continuous breaks
\* out of its loop and main returns
Interrupt ==
    /\ pc \notin {"down", "stopped"}
    /\ pc' = "stopped"
    /\ ev' = "interrupt"
    /\ NoFault
    /\ MemoryLost

\* time.sleep raises ValueError for a negative length: the except clause of
\* run_continuous catches the one of line 269 and calls time.sleep itself,
\* whose ValueError leaves run_continuous; main logs it and exits
SleepRaises ==
    /\ pc = "sleep"
    /\ poll_interval < 0
    /\ pc' = "down"
    /\ ev' = "fatal"
    /\ NoFault
    /\ MemoryLost

\* run_continuous: "for email in emails: self.process_email(email)"
LoopProcessEmail ==
    /\ pc = "batch"
    /\ ProcessEmail(Head(batch))

\* a caller other than run_continuous (the unit tests) passes any dict
CallProcessEmail(e) ==
    /\ pc = "idle"
    /\ ProcessEmail(e)

\* the program as main runs it
Next ==
    \/ Start
    \/ RunContinuous
    \/ CycleStart
    \/ CycleError
    \/ Sleep
    \/ SleepRaises
    \/ LoopProcessEmail
    \/ ApplyLabels
    \/ SaveOpen
    \/ SaveWrite
    \/ Crash
    \/ Interrupt

Spec == Init /\ [][Next]_vars

\* the agent left to run: it is neither killed nor interrupted, its poll
\* interval is one time.sleep accepts, and it does not stand still
InitLive == Init /\ poll_interval >= 0

NextLive ==
    \/ Start
    \/ RunContinuous
    \/ CycleStart
    \/ CycleError
    \/ Sleep
    \/ LoopProcessEmail
    \/ ApplyLabels
    \/ SaveOpen
    \/ SaveWrite

SpecLive == InitLive /\ [][NextLive]_vars /\ WF_vars(NextLive)

\* a state file of the legacy format: a bare list of ids, without timestamps
ListFile(S) == [kind |-> "list", entries |-> [i \in S |-> BadTs]]

\* the agent started on a state file of the legacy format
LegacyFiles == {ListFile({1}), ListFile(Ids)}

InitLegacy ==
    /\ pc = "down"
    /\ running = FALSE
    /\ now = 0
    /\ retention_days \in RetentionChoices
    /\ remove_from_inbox \in BOOLEAN
    /\ poll_interval \in PollIntervalChoices
    /\ max_emails_per_poll = MAX_EMAILS_PER_POLL
    /\ processed_emails = EmptyLedger
    /\ label_id_map = EmptyLedger
    /\ state_file \in LegacyFiles
    /\ labelled = {}
    /\ batch = <<>>
    /\ cur = NoMsg
    /\ predicted_labels = <<>>
    /\ label_ids = <<>>
    /\ ret = FALSE
    /\ result = "none"
    /\ ev = "init"
    /\ label_called = {}
    /\ raised = {}
    /\ backend_failed = {}
    /\ faults = 0
    /\ call = NoCall
    /\ out = NoOut

SpecLegacy == InitLegacy /\ [][Next]_vars

\* an agent whose process_email is called directly, with any dict
NextCall ==
    \/ Start
    \/ \E e \in AnyMessage : CallProcessEmail(e)
    \/ ApplyLabels
    \/ SaveOpen
    \/ SaveWrite
    \/ Crash

\* process_email reads neither the poll interval nor the batch size
InitCall ==
    /\ Init
    /\ poll_interval = 60
    /\ max_emails_per_poll = MAX_EMAILS_PER_POLL

SpecCall == InitCall /\ [][NextCall]_vars

\* ------------------------------------------------- the state store by itself
\* _load_state and _cleanup_old_state called on their own, on any state file
\* and any ledger
Timestamps == (0..MaxDay) \cup {BadTs}

Ledgers == UNION {[S -> Timestamps] : S \in SUBSET Ids}

StateFiles ==
    {[kind |-> k, entries |-> EmptyLedger] :
        k \in {"absent", "partial", "garbage", "not_object", "no_key", "scalar"}}
    \cup {ListFile(S) : S \in SUBSET Ids}
    \cup {StateData(l) : l \in Ledgers}

StateCalls ==
    {[fn |-> "_load_state", arg |-> f] : f \in StateFiles}
    \cup {[fn |-> "_cleanup_old_state", arg |-> l] : l \in Ledgers}

Returned(v) == [kind |-> "returned", val |-> v]

InitState ==
    /\ pc = "down"
    /\ running = FALSE
    /\ now \in 0..MaxDay
    /\ retention_days \in RetentionChoices
    /\ remove_from_inbox = TRUE
    /\ poll_interval = 60
    /\ max_emails_per_poll = MAX_EMAILS_PER_POLL
    /\ processed_emails = EmptyLedger
    /\ label_id_map = EmptyLedger
    /\ call \in StateCalls
    /\ state_file = (IF call.fn = "_load_state" THEN call.arg ELSE AbsentFile)
    /\ labelled = {}
    /\ batch = <<>>
    /\ cur = NoMsg
    /\ predicted_labels = <<>>
    /\ label_ids = <<>>
    /\ ret = FALSE
    /\ result = "none"
    /\ ev = "init"
    /\ label_called = {}
    /\ raised = {}
    /\ backend_failed = {}
    /\ faults = 0
    /\ out = NoOut

agent_vars == <<pc, running, now, config_vars, processed_emails, label_id_map,
                state_file, labelled, batch, cur, predicted_labels, label_ids, ret, result, ev,
                label_called, raised, backend_failed, faults>>

LoadStateCall ==
    /\ call.fn = "_load_state"
    /\ out = NoOut
    /\ out' = Returned(LoadState(state_file, retention_days, now))
    /\ UNCHANGED <<agent_vars, call>>

CleanupCall ==
    /\ call.fn = "_cleanup_old_state"
    /\ out = NoOut
    /\ out' = Returned(CleanupOldState(call.arg, retention_days, now))
    /\ UNCHANGED <<agent_vars, call>>

NextState ==
    \/ LoadStateCall
    \/ CleanupCall

SpecState == InitState /\ [][NextState]_vars

\* ------------------------------------------------- the classifier's response
\* A response text is a sequence of tokens: punctuation of JSON ("p"), a JSON
\* string literal ("str", s its content), another JSON scalar ("lit": a
\* number, true, null), a word of prose or a language tag ("word"), a
\* triple-backtick fence ("fence"), a newline ("nl").  NoneText stands for a
\* response that is not a string (None).
P(c) == [k |-> "p", s |-> c]
StrTok(x) == [k |-> "str", s |-> x]
LitTok == [k |-> "lit", s |-> "1"]
Word(w) == [k |-> "word", s |-> w]
FenceTok == [k |-> "fence", s |-> "fence"]
NlTok == [k |-> "nl", s |-> "nl"]
NoneText == <<[k |-> "None", s |-> "None"]>>

\* decoded JSON values: a string, another scalar, an array of values, an
\* object (a sequence of members, each a key with one value)
Str(x) == [t |-> "str", v |-> x, items |-> <<>>]
Lit == [t |-> "lit", v |-> "1", items |-> <<>>]
Arr(vs) == [t |-> "arr", v |-> "", items |-> vs]
Mem(key, val) == [t |-> "mem", v |-> key, items |-> <<val>>]
Obj(ms) == [t |-> "obj", v |-> "", items |-> ms]

\* json.dumps
RECURSIVE Dumps(_)
RECURSIVE DumpsList(_, _)
DumpsList(vs, i) ==
    IF i > Len(vs) THEN <<>>
    ELSE (IF i > 1 THEN <<P(",")>> ELSE <<>>) \o Dumps(vs[i]) \o DumpsList(vs, i + 1)

Dumps(val) ==
    CASE val.t = "str" -> <<StrTok(val.v)>>
      [] val.t = "lit" -> <<LitTok>>
      [] val.t = "arr" -> <<P("[")>> \o DumpsList(val.items, 1) \o <<P("]")>>
      [] val.t = "obj" -> <<P("{")>> \o DumpsList(val.items, 1) \o <<P("}")>>
      [] val.t = "mem" -> <<StrTok(val.v), P(":")>> \o Dumps(val.items[1])

\* json.loads: a recursive-descent reading of the tokens; anything that is
\* not one JSON value raises JSONDecodeError (ok = FALSE)
DecodeError == [ok |-> FALSE, val |-> Lit, next |-> 0]
Decoded(val, next) == [ok |-> TRUE, val |-> val, next |-> next]
IsTok(toks, i, tok) == i <= Len(toks) /\ toks[i] = tok

RECURSIVE ParseValue(_, _)
RECURSIVE ParseElements(_, _, _)
RECURSIVE ParseMembers(_, _, _)
ParseElements(toks, i, acc) ==
    LET r == ParseValue(toks, i)
    IN  IF ~r.ok THEN DecodeError
        ELSE IF IsTok(toks, r.next, P(","))
             THEN ParseElements(toks, r.next + 1, Append(acc, r.val))
        ELSE IF IsTok(toks, r.next, P("]"))
             THEN Decoded(Arr(Append(acc, r.val)), r.next + 1)
        ELSE DecodeError

ParseMembers(toks, i, acc) ==
    IF ~(i + 1 <= Len(toks) /\ toks[i].k = "str" /\ toks[i + 1] = P(":"))
    THEN DecodeError
    ELSE LET r == ParseValue(toks, i + 2)
             m == Mem(toks[i].s, r.val)
         IN  IF ~r.ok THEN DecodeError
             ELSE IF IsTok(toks, r.next, P(","))
                  THEN ParseMembers(toks, r.next + 1, Append(acc, m))
             ELSE IF IsTok(toks, r.next, P("}"))
                  THEN Decoded(Obj(Append(acc, m)), r.next + 1)
             ELSE DecodeError

ParseValue(toks, i) ==
    IF i > Len(toks) THEN DecodeError
    ELSE CASE toks[i].k = "str" -> Decoded(Str(toks[i].s), i + 1)
           [] toks[i].k = "lit" -> Decoded(Lit, i + 1)
           [] toks[i] = P("[") ->
                IF IsTok(toks, i + 1, P("]")) THEN Decoded(Arr(<<>>), i + 2)
                ELSE ParseElements(toks, i + 1, <<>>)
           [] toks[i] = P("{") ->
                IF IsTok(toks, i + 1, P("}")) THEN Decoded(Obj(<<>>), i + 2)
                ELSE ParseMembers(toks, i + 1, <<>>)
           [] OTHER -> DecodeError

\* whitespace between JSON tokens is skipped
NoNl(text) == SelectSeq(text, LAMBDA tok : tok.k # "nl")

JsonLoads(text) ==
    LET toks == NoNl(text)
        r == ParseValue(toks, 1)
    IN  IF r.ok /\ r.next = Len(toks) + 1 THEN r ELSE DecodeError

\* str.strip(): leading and trailing whitespace removed
RECURSIVE Strip(_)
Strip(text) ==
    IF text = <<>> THEN <<>>
    ELSE IF Head(text) = NlTok THEN Strip(Tail(text))
    ELSE IF text[Len(text)] = NlTok THEN Strip(SubSeq(text, 1, Len(text) - 1))
    ELSE text

NoMatch == [found |-> FALSE, text |-> <<>>]
Match(text) == [found |-> TRUE, text |-> text]

Positions(text, tok) == {i \in 1..Len(text) : text[i] = tok}
Min(S) == CHOOSE x \in S : \A y \in S : x <= y

\* re.search(r'```(?:json)?\s*\n?(.*?)\n?```', response, re.DOTALL): from the
\* first fence, over a "json" tag, up to the next fence; group(1).strip()
CodeBlock(text) ==
    LET fences == Positions(text, FenceTok)
    IN  IF Cardinality(fences) < 2 THEN NoMatch
        ELSE LET open == Min(fences)
                 from == IF text[open + 1] = Word("json") THEN open + 2 ELSE open + 1
                 close == Min({j \in fences : j >= from})
             IN  Match(Strip(SubSeq(text, from, close - 1)))

\* response.replace('```json', '').replace('```', '').strip()
RECURSIVE RemoveMarkers(_)
RemoveMarkers(text) ==
    IF text = <<>> THEN <<>>
    ELSE IF Head(text) = FenceTok
         THEN IF Len(text) >= 2 /\ text[2] = Word("json")
              THEN RemoveMarkers(SubSeq(text, 3, Len(text)))
              ELSE RemoveMarkers(Tail(text))
         ELSE <<Head(text)>> \o RemoveMarkers(Tail(text))

\* the segment text[i..j] opens with o, closes with c and has no token of
\* stops in between
Flat(text, i, j, o, c, stops) ==
    /\ i < j
    /\ text[i] = o
    /\ text[j] = c
    /\ \A n \in (i + 1)..(j - 1) : text[n] \notin stops

Braces == {P("{"), P("}")}
Brackets == {P("["), P("]")}

\* re.search(r'\{[^{}]*"labels"[^{}]*\}', response, re.DOTALL): the leftmost
\* brace pair with no brace inside and "labels" inside
JsonPattern(text) ==
    LET hits == {i \in 1..Len(text) : \E j \in 1..Len(text) :
                    /\ Flat(text, i, j, P("{"), P("}"), Braces)
                    /\ \E n \in (i + 1)..(j - 1) : text[n] = StrTok("labels")}
    IN  IF hits = {} THEN NoMatch
        ELSE LET i == Min(hits)
                 j == CHOOSE n \in 1..Len(text) : Flat(text, i, n, P("{"), P("}"), Braces)
             IN  Match(SubSeq(text, i, j))

\* re.findall(r'\[[^\[\]]*\]|\{[^{}]*\}', response): from left to right, the
\* bracket pairs with no bracket inside and the brace pairs with no brace
\* inside, none overlapping an earlier one
RECURSIVE JsonLike(_, _)
JsonLike(text, i) ==
    IF i > Len(text) THEN <<>>
    ELSE LET ends == {j \in 1..Len(text) :
                        \/ Flat(text, i, j, P("["), P("]"), Brackets)
                        \/ Flat(text, i, j, P("{"), P("}"), Braces)}
         IN  IF ends = {} THEN JsonLike(text, i + 1)
             ELSE <<SubSeq(text, i, Min(ends))>> \o JsonLike(text, Min(ends) + 1)

\* str.lower() on the strings of the model
Lower(x) ==
    CASE x \in {"AWS", "Aws", "aws"} -> "aws"
      [] x \in {"Finance", "FINANCE", "finance"} -> "finance"
      [] x \in {"Other", "other"} -> "other"
      [] x \in {"bedrock", "Bedrock", "BEDROCK"} -> "bedrock"
      [] x \in {"anthropic", "Anthropic", "ANTHROPIC"} -> "anthropic"
      [] x \in {"openai", "OpenAI", "OPENAI"} -> "openai"
      [] x \in {"ollama", "Ollama", "OLLAMA"} -> "ollama"
      [] x \in {"openrouter", "OpenRouter"} -> "openrouter"
      [] OTHER -> x

InSeq(x, seq) == \E i \in 1..Len(seq) : seq[i] = x

\* available_labels_lower = {label.lower(): label for label in available_labels}
AvailableLower(available) ==
    [l \in {Lower(available[i]) : i \in 1..Len(available)} |->
        available[CHOOSE i \in 1..Len(available) :
                     /\ Lower(available[i]) = l
                     /\ \A j \in 1..Len(available) : Lower(available[j]) = l => j <= i]]

\* (mutant) the validation keeps a matching label as the response spells it
RECURSIVE ValidLabelsAsWritten(_, _)
ValidLabelsAsWritten(labels, available) ==
    IF labels = <<>> THEN <<>>
    ELSE LET label == Head(labels)
             rest == ValidLabelsAsWritten(Tail(labels), available)
         IN  IF label.t # "str" THEN rest
             ELSE IF Lower(label.v) \in DOMAIN AvailableLower(available)
                  THEN <<label.v>> \o rest
             ELSE rest

\* the validation loop: non-strings and strings matching no label are left
\* out, the others give the label as available_labels spells it
RECURSIVE ValidLabels(_, _)
ValidLabels(labels, available) ==
    IF labels = <<>> THEN <<>>
    ELSE LET label == Head(labels)
             rest == ValidLabels(Tail(labels), available)
         IN  IF label.t # "str" THEN rest
             ELSE IF InSeq(label.v, available) THEN <<label.v>> \o rest
             ELSE IF Lower(label.v) \in DOMAIN AvailableLower(available)
                  THEN <<AvailableLower(available)[Lower(label.v)]>> \o rest
             ELSE rest

\* data['labels']: the last member of the object with that key
HasKey(obj, key) == \E i \in 1..Len(obj.items) : obj.items[i].v = key
Get(obj, key) ==
    LET i == CHOOSE n \in 1..Len(obj.items) :
                /\ obj.items[n].v = key
                /\ \A m \in 1..Len(obj.items) : obj.items[m].v = key => m <= n
    IN  obj.items[i].items[1]

\* parse_labels_from_response, lines 81-98: what json.loads is given
Prepared(response) ==
    LET stripped == Strip(response)
        block == CodeBlock(stripped)
        unfenced == IF Positions(stripped, FenceTok) = {} THEN stripped
                    ELSE IF block.found THEN block.text
                    ELSE Strip(RemoveMarkers(stripped))
        json_match == JsonPattern(unfenced)
    IN  IF json_match.found THEN json_match.text ELSE unfenced

\* parse_labels_from_response, lines 103-141: the labels of the decoded value
Validated(data, available) ==
    LET labels == IF data.t = "obj" /\ HasKey(data, "labels") THEN Get(data, "labels")
                  ELSE data
    IN  IF data.t = "obj" /\ ~HasKey(data, "labels") THEN <<>>
        ELSE IF data.t \notin {"obj", "arr"} THEN <<>>
        ELSE IF labels.t # "arr" THEN <<>>
        ELSE ValidLabels(labels.items, available)

\* parse_labels_from_response; the except clause of JSONDecodeError goes
\* through the JSON-like pieces of the text and parses the first one that is
\* a list or an object with "labels"
RECURSIVE ParseLabels(_, _)
RECURSIVE Fallback(_, _, _)
Fallback(matches, i, available) ==
    IF i > Len(matches) THEN <<>>
    ELSE LET d == JsonLoads(matches[i])
         IN  IF d.ok /\ d.val.t = "arr"
             THEN ParseLabels(Dumps(Obj(<<Mem("labels", d.val)>>)), available)
             ELSE IF d.ok /\ d.val.t = "obj" /\ HasKey(d.val, "labels")
             THEN ParseLabels(matches[i], available)
             ELSE Fallback(matches, i + 1, available)

ParseLabels(response, available) ==
    IF response = NoneText THEN <<>>
    ELSE LET text == Prepared(response)
             d == JsonLoads(text)
         IN  IF d.ok THEN Validated(d.val, available)
             ELSE Fallback(JsonLike(text, 1), 1, available)

\* ------------------------------------------ the responses the parser is given
\* entries of a labels array: labels in several spellings, a string that is
\* no label, a non-string scalar, a nested array, a nested object
ItemChoices ==
    {Str("AWS"), Str("aws"), Str("Finance"), Str("Other"), Lit,
     Arr(<<Str("Finance")>>), Obj(<<Mem("labels", Arr(<<Str("Finance")>>))>>)}

ItemLists == SeqsUpTo(ItemChoices, MaxLabels)

LabelsObj(val) == Obj(<<Mem("labels", val)>>)

\* decoded values of other shapes
OtherDocs ==
    {Str("AWS"), Lit, Obj(<<>>),
     LabelsObj(Str("AWS")), LabelsObj(Lit),
     LabelsObj(LabelsObj(Arr(<<Str("AWS")>>))),
     LabelsObj(Obj(<<Mem("AWS", Lit)>>)),
     Obj(<<Mem("data", Arr(<<Str("AWS")>>))>>),
     Obj(<<Mem("data", LabelsObj(Arr(<<Str("AWS")>>)))>>),
     Obj(<<Mem("labels", Arr(<<Str("AWS")>>)),
           Mem("rejected", LabelsObj(Arr(<<Str("Finance")>>)))>>),
     Obj(<<Mem("labels", Arr(<<Str("AWS")>>)),
           Mem("confidence", Obj(<<Mem("AWS", Lit)>>))>>)}

Docs ==
    {Arr(a) : a \in ItemLists} \cup {LabelsObj(Arr(a)) : a \in ItemLists}
    \cup OtherDocs

NoDoc == [t |-> "none", v |-> "", items |-> <<>>]

\* how the backend dresses the JSON document up
Wrappings ==
    {"plain", "fenced", "fenced_json", "fenced_tag", "prose_before",
     "prose_after"}

Wrap(w, text) ==
    CASE w = "plain" -> text
      [] w = "fenced" -> <<FenceTok, NlTok>> \o text \o <<NlTok, FenceTok>>
      [] w = "fenced_json" ->
            <<FenceTok, Word("json"), NlTok>> \o text \o <<NlTok, FenceTok>>
      [] w = "fenced_tag" ->
            <<FenceTok, Word("python"), NlTok>> \o text \o <<NlTok, FenceTok>>
      [] w = "prose_before" -> <<Word("Here"), Word("you"), Word("go"), NlTok>> \o text
      [] w = "prose_after" -> text \o <<NlTok, Word("Done")>>

\* texts that hold no JSON document: nothing, prose, a cut-off document, a
\* response that is not a string
UndecodableTexts ==
    {<<>>, <<NlTok>>, <<Word("Sorry")>>, <<Word("Sorry"), P("["), Word("oops"), P("]")>>,
     <<P("{"), StrTok("labels"), P(":"), P("["), StrTok("AWS")>>,
     <<P("{"), StrTok("labels"), P(":")>>, <<FenceTok>>, NoneText}

\* other texts: an unclosed fence, prose with a bracketed reference
OddTexts ==
    {<<FenceTok, Word("json"), NlTok>> \o Dumps(LabelsObj(Arr(<<Str("aws")>>))),
     <<FenceTok>> \o Dumps(Arr(<<Str("AWS")>>)),
     <<Word("See"), P("["), LitTok, P("]"), NlTok>> \o Dumps(Arr(<<Str("AWS")>>))}

ParseCalls ==
    {[fn |-> "parse_labels_from_response",
      arg |-> [text |-> Wrap(w, Dumps(d)), doc |-> d, wrap |-> w]] :
        d \in Docs, w \in Wrappings}
    \cup {[fn |-> "parse_labels_from_response",
           arg |-> [text |-> x, doc |-> NoDoc, wrap |-> "undecodable"]] :
             x \in UndecodableTexts}
    \cup {[fn |-> "parse_labels_from_response",
           arg |-> [text |-> x, doc |-> NoDoc, wrap |-> "odd"]] : x \in OddTexts}

\* parse_labels_from_response(response, config.LABELS)
ParseCall ==
    /\ call.fn = "parse_labels_from_response"
    /\ out = NoOut
    /\ out' = Returned(ParseLabels(call.arg.text, LABELS))
    /\ UNCHANGED <<agent_vars, call>>

\* ------------------------------------------------------ the provider variants
Providers == {"bedrock", "anthropic", "openai", "ollama", "openrouter"}

\* the variants that parse the response with llm_utils.parse_labels_from_response
\* (the others have a _parse_labels_from_response of their own)
SharedParserProviders == {"bedrock", "openrouter"}

\* _parse_labels_from_response of AnthropicProvider, OpenAIProvider and
\* OllamaProvider: "lines[1:-1]" of a response that starts with a fence
InnerLines(text) ==
    LET nls == Positions(text, NlTok)
    IN  IF Cardinality(nls) < 2 THEN text
        ELSE SubSeq(text, Min(nls) + 1, (CHOOSE n \in nls : \A m \in nls : m <= n) - 1)

\* the keys of a decoded object, as iterating the dict gives them
Keys(obj) ==
    LET all == [i \in 1..Len(obj.items) |-> Str(obj.items[i].v)]
        first == {i \in 1..Len(all) : \A j \in 1..(i - 1) : all[j] # all[i]}
    IN  [n \in 1..Cardinality(first) |->
            all[CHOOSE i \in first : Cardinality({j \in first : j <= i}) = n]]

\* "[label for label in labels if label in available_labels]", then
\* set(labels) when something was left out, which raises TypeError for an
\* entry that is a list or a dict; every exception is caught and gives []
OwnValidLabels(labels, available) ==
    CASE labels.t = "arr" ->
            IF \E i \in 1..Len(labels.items) : labels.items[i].t \in {"arr", "obj"}
            THEN <<>>
            ELSE [i \in 1..Len(SelectSeq(labels.items,
                                         LAMBDA x : x.t = "str" /\ InSeq(x.v, available)))
                    |-> SelectSeq(labels.items,
                                  LAMBDA x : x.t = "str" /\ InSeq(x.v, available))[i].v]
      [] labels.t = "obj" ->
            [i \in 1..Len(SelectSeq(Keys(labels), LAMBDA x : InSeq(x.v, available)))
                |-> SelectSeq(Keys(labels), LAMBDA x : InSeq(x.v, available))[i].v]
      [] OTHER -> <<>>

OwnParseLabels(response, available) ==
    IF response = NoneText THEN <<>>
    ELSE LET stripped == Strip(response)
             text == IF stripped # <<>> /\ Head(stripped) = FenceTok
                     THEN InnerLines(stripped) ELSE stripped
             d == JsonLoads(text)
         IN  IF ~d.ok THEN <<>>
             ELSE IF d.val.t = "obj" /\ HasKey(d.val, "labels")
                  THEN OwnValidLabels(Get(d.val, "labels"), available)
             ELSE IF d.val.t = "arr" THEN OwnValidLabels(d.val, available)
             ELSE <<>>

ProviderParse(provider, response, available) ==
    IF provider \in SharedParserProviders
    THEN ParseLabels(response, available)
    ELSE OwnParseLabels(response, available)

\* what the backend call of classify_email does: an API error, throttling,
\* a connection error, a response envelope without the expected fields, or a
\* response text
BackendFailures == {"api_error", "throttled", "connection_error", "bad_envelope"}

\* the exception the try block of classify_email ends with ("none": it
\* reaches its return statement).  _invoke_bedrock raises the ClientError
\* of the API again and returns "" for a body without content
BackendRaises(provider, backend) ==
    CASE backend.kind \in {"api_error", "throttled"} ->
            IF provider = "bedrock" THEN "ClientError" ELSE "APIError"
      [] backend.kind = "connection_error" -> "ConnectionError"
      [] backend.kind = "bad_envelope" ->
            IF provider = "bedrock" THEN "none"
            ELSE IF provider = "ollama" THEN "KeyError" ELSE "IndexError"
      [] OTHER -> "none"

\* (mutant) only the errors of the API are caught
ExceptClausesApiOnly(provider) == {"ClientError", "APIError"}

\* the except clauses of classify_email
ExceptClauses(provider) ==
    CASE provider = "bedrock" -> {"ClientError", "Exception"}
      [] provider = "openrouter" -> {"ImportError", "Exception"}
      [] OTHER -> {"Exception"}

\* every exception class of the model derives from Exception
Handled(provider, exc) ==
    \E cls \in ExceptClauses(provider) : cls = exc \/ cls = "Exception"

RaisedOut(exc) == [kind |-> "raised", val |-> exc]

\* classify_email of the provider variant
ClassifyEmail(provider, backend, available) ==
    LET exc == BackendRaises(provider, backend)
        text == IF backend.kind = "text" THEN backend.text ELSE <<>>
    IN  IF exc = "none" THEN Returned(ProviderParse(provider, text, available))
        ELSE IF Handled(provider, exc) THEN Returned(<<>>)
        ELSE RaisedOut(exc)

\* ------------------------------------------------------------- the factory
\* config.LLM_PROVIDER as the environment may spell it
Discriminators ==
    {"bedrock", "Bedrock", "BEDROCK", "anthropic", "Anthropic", "openai",
     "OpenAI", "ollama", "OLLAMA", "openrouter", "gemini", ""}

\* an API key of the configuration: not set (None), empty, or a key
ApiKeys == {"None", "", "sk-1"}

\* "not config.ANTHROPIC_API_KEY"
Not(key) == key \in {"None", ""}

FactoryConfigs ==
    [LLM_PROVIDER : Discriminators, ANTHROPIC_API_KEY : ApiKeys,
     OPENAI_API_KEY : ApiKeys]

\* the constructor of cls is called and its instance returned
Constructed(cls) == Returned([name |-> cls, constructed |-> {cls}])

\* "raise ValueError(...)": no constructor has been called
ValueError == RaisedOut([name |-> "ValueError", constructed |-> {}])

\* (mutant) the discriminator is compared as it is spelled
CreateCaseSensitive(cfg) ==
    CASE cfg.LLM_PROVIDER = "bedrock" -> Constructed("BedrockProvider")
      [] cfg.LLM_PROVIDER = "anthropic" ->
            IF Not(cfg.ANTHROPIC_API_KEY) THEN ValueError
            ELSE Constructed("AnthropicProvider")
      [] cfg.LLM_PROVIDER = "openai" ->
            IF Not(cfg.OPENAI_API_KEY) THEN ValueError
            ELSE Constructed("OpenAIProvider")
      [] cfg.LLM_PROVIDER = "ollama" -> Constructed("OllamaProvider")
      [] OTHER -> ValueError

\* create_llm_provider
CreateLlmProvider(cfg) ==
    LET provider_type == Lower(cfg.LLM_PROVIDER)
    IN  CASE provider_type = "bedrock" -> Constructed("BedrockProvider")
          [] provider_type = "anthropic" ->
                IF Not(cfg.ANTHROPIC_API_KEY) THEN ValueError
                ELSE Constructed("AnthropicProvider")
          [] provider_type = "openai" ->
                IF Not(cfg.OPENAI_API_KEY) THEN ValueError
                ELSE Constructed("OpenAIProvider")
          [] provider_type = "ollama" -> Constructed("OllamaProvider")
          [] OTHER -> ValueError

\* ----------------------------------- the classifier's functions by themselves
\* response texts a backend call returns
BackendTexts ==
    {Wrap(w, Dumps(d)) :
        w \in {"plain", "fenced_json"},
        d \in {LabelsObj(Arr(a)) : a \in SeqsUpTo({Str("AWS"), Str("finance")}, MaxLabels)}}
    \cup {<<Word("Sorry")>>}

Backends ==
    {[kind |-> k, text |-> <<>>] : k \in BackendFailures}
    \cup {[kind |-> "text", text |-> x] : x \in BackendTexts}

ClassifyCalls ==
    {[fn |-> "classify_email", arg |-> [provider |-> p, backend |-> b]] :
        p \in Providers, b \in Backends}

FactoryCalls == {[fn |-> "create_llm_provider", arg |-> c] : c \in FactoryConfigs}

InitLLM ==
    /\ pc = "down"
    /\ running = FALSE
    /\ now = 0
    /\ retention_days = 0
    /\ remove_from_inbox = TRUE
    /\ poll_interval = 60
    /\ max_emails_per_poll = MAX_EMAILS_PER_POLL
    /\ processed_emails = EmptyLedger
    /\ label_id_map = EmptyLedger
    /\ call \in ParseCalls \cup ClassifyCalls \cup FactoryCalls
    /\ state_file = AbsentFile
    /\ labelled = {}
    /\ batch = <<>>
    /\ cur = NoMsg
    /\ predicted_labels = <<>>
    /\ label_ids = <<>>
    /\ ret = FALSE
    /\ result = "none"
    /\ ev = "init"
    /\ label_called = {}
    /\ raised = {}
    /\ backend_failed = {}
    /\ faults = 0
    /\ out = NoOut

\* provider.classify_email(email, config.CLASSIFICATION_PROMPT, config.LABELS)
ClassifyCall ==
    /\ call.fn = "classify_email"
    /\ out = NoOut
    /\ out' = ClassifyEmail(call.arg.provider, call.arg.backend, LABELS)
    /\ UNCHANGED <<agent_vars, call>>

\* create_llm_provider(config)
FactoryCall ==
    /\ call.fn = "create_llm_provider"
    /\ out = NoOut
    /\ out' = CreateLlmProvider(call.arg)
    /\ UNCHANGED <<agent_vars, call>>

NextLLM ==
    \/ ParseCall
    \/ ClassifyCall
    \/ FactoryCall

SpecLLM == InitLLM /\ [][NextLLM]_vars

\* ------------------------------------------------------------- observations
\* the steps that are a call of process_email, and those among them in which
\* the classifier is called
ProcessEvents ==
    {"no_id", "skip", "key_error", "classify_raise", "classify_backend_error",
     "classify_empty", "classify_labels"}

ClassifyEvents ==
    {"classify_raise", "classify_backend_error", "classify_empty", "classify_labels"}

\* the steps in which add_labels_to_message is called
ApplyCallEvents == {"apply_ok", "apply_http_error", "apply_raise"}

\* the steps in which _save_state ends and process_email returns
SaveEndEvents == {"saved", "save_open_failed", "save_write_failed"}

\* this step is a call of process_email
ProcessStep == pc \in {"idle", "batch"} /\ ev' \in ProcessEvents

\* the state file holds an entry for id
InFile(id) == state_file.kind = "dict" /\ id \in DOMAIN state_file.entries

\* a call of process_email for a message that has a subject and whose id is in
\* the ledger returns True without a classifier call
SkipsRecorded ==
    (ProcessStep /\ cur'.subject /\ cur'.id \in DOMAIN processed_emails)
        => (result' = "True" /\ ev' = "skip")

\* ------------------------------------------------------------------ claims

\* C1: for any message whose id is already in the in-memory ledger,
\* process_email returns True and makes no classifier call, whatever the
\* other fields of the message are.
C1_SkipsAnyRecordedMessage ==
    [][(ProcessStep /\ cur'.id # NoId /\ cur'.id \in DOMAIN processed_emails)
         => (result' = "True" /\ ev' \notin ClassifyEvents)]_vars

\* C2 (as stated): add_labels_to_message is called at most once for each
\* message id, over any sequence of poll cycles, prunings and restarts.
C2_LabelCallAtMostOnce ==
    [][(pc = "apply" /\ ev' \in ApplyCallEvents) => cur.id \notin label_called]_vars

\* C2 (amended): add_labels_to_message is called for a message only while its
\* id is absent from the in-memory ledger, and unless the call raises the id
\* is in the ledger right after it; a second call for the same id is
\* possible only after the entry left the ledger (pruned, or lost in a
\* restart).
C2_LabelCallOnlyWhenUnrecorded ==
    [][(pc = "apply" /\ ev' \in ApplyCallEvents)
         => /\ cur.id \notin DOMAIN processed_emails
            /\ ev' # "apply_raise" => cur.id \in DOMAIN processed_emails']_vars

C2_Witness ==
    /\ ev = "apply_ok"
    /\ cur.id \in label_called
    /\ cur.id \in DOMAIN processed_emails

\* C3: when the classifier returns an empty list for a message not in the
\* ledger, process_email records the id, goes on to save the state file,
\* makes no mailbox call and returns False; a later process_email for that
\* message returns True without a classifier call.
C3_EmptyResultRecorded ==
    [][/\ ev' = "classify_empty"
            => /\ cur'.id \notin DOMAIN processed_emails
               /\ cur'.id \in DOMAIN processed_emails'
               /\ processed_emails'[cur'.id] = now
               /\ pc' = "save_open"
               /\ ret' = FALSE
               /\ UNCHANGED <<labelled, label_called>>
       /\ (pc \in {"save_open", "save_write"} /\ ~ret
             /\ ev' \in SaveEndEvents \cup {"save_open"})
            => /\ UNCHANGED <<labelled, label_called, processed_emails>>
               /\ ev' = "saved" => /\ state_file'.kind = "dict"
                                   /\ state_file'.entries = processed_emails
                                   /\ cur.id \in DOMAIN state_file'.entries
               /\ ev' \in SaveEndEvents => result' = "False"
       /\ SkipsRecorded]_vars

C3_Witness ==
    /\ ev = "saved"
    /\ result = "False"
    /\ cur.id \in DOMAIN processed_emails
    /\ InFile(cur.id)
    /\ cur.id \notin label_called

\* C4: if the classifier call or a later step of process_email raises,
\* process_email returns False without raising, the id is added to neither
\* the ledger nor the state file, and the next process_email for that
\* message calls the classifier again.
C4_ExceptionLeavesUnrecorded ==
    [][/\ ev' \in {"classify_raise", "apply_raise"}
            => /\ result' = "False"
               /\ pc' \in {"idle", "batch", "sleep"}
               /\ UNCHANGED <<processed_emails, state_file>>
               /\ cur'.id \notin DOMAIN processed_emails'
       /\ (ProcessStep /\ cur'.subject /\ cur'.id # NoId
             /\ cur'.id \notin DOMAIN processed_emails)
            => ev' \in ClassifyEvents]_vars

C4_Witness ==
    /\ ev = "apply_raise"
    /\ result = "False"
    /\ cur.id \notin DOMAIN processed_emails
    /\ ~InFile(cur.id)

\* C5: if the Gmail modify request errors while labels are applied, the
\* message's processing is aborted and its id is not added to the ledger.
C5_ModifyErrorNotRecorded ==
    ev = "apply_http_error" => cur.id \notin DOMAIN processed_emails

\* C6: when processing a message of the batch ends in an exception, the
\* ledger and the state file keep the entries recorded before it, and the
\* loop goes on with the next message of the same batch.
C6_FailureIsolated ==
    [][/\ (running /\ ev' \in {"classify_raise", "apply_raise", "key_error"})
            => /\ UNCHANGED <<processed_emails, state_file>>
               /\ batch' = Tail(batch)
               /\ pc' = IF batch' = <<>> THEN "sleep" ELSE "batch"
       /\ (pc = "batch" /\ ev' \in ProcessEvents) => cur' = Head(batch)]_vars

\* the batch was [1, 2, 3]: 1 is recorded and saved, 2 raised, 3 is processed
C6_Witness ==
    /\ raised = {2}
    /\ cur.id = 3
    /\ ev \in ClassifyEvents
    /\ 1 \in DOMAIN processed_emails
    /\ InFile(1)
    /\ 2 \notin DOMAIN processed_emails

\* C7: a message whose classification failed in the backend is classified
\* again when a later poll hands it to process_email: the failure does not
\* leave it recorded as processed.
C7_BackendFailureRetried ==
    [][(pc = "batch" /\ ev' \in ProcessEvents /\ cur'.id \in backend_failed)
         => ev' \in ClassifyEvents]_vars

\* C8 (as stated): whenever process_email returns after adding an id to the
\* ledger, the state file contains that id.
C8_ReturnedImpliesSaved ==
    ev \in SaveEndEvents => InFile(cur.id)

\* C8 (amended): every step of process_email that adds an id to the ledger
\* goes on to _save_state; when the write does not fail the state file then
\* holds the whole ledger, that id included; an agent started on a state file
\* has every id of it whose timestamp is within the retention period, and
\* skips such a message without a classifier call.
C8_SavedAndReloaded ==
    [][/\ (pc \in {"idle", "batch", "apply"}
             /\ DOMAIN processed_emails' \ DOMAIN processed_emails # {})
            => pc' = "save_open"
       /\ ev' = "saved"
            => /\ state_file'.kind = "dict"
               /\ state_file'.entries = processed_emails'
               /\ cur.id \in DOMAIN state_file'.entries
       /\ ev' = "start"
            => \A m \in Ids :
                  (/\ InFile(m)
                   /\ \/ retention_days <= 0
                      \/ /\ state_file.entries[m] # BadTs
                         /\ state_file.entries[m] >= now - retention_days)
                  => /\ m \in DOMAIN processed_emails'
                     /\ processed_emails'[m] = state_file.entries[m]
       /\ SkipsRecorded]_vars

\* an agent restarted on a state file holds an id reloaded from it
C8_Witness ==
    /\ ev = "start"
    /\ \E m \in Ids :
          /\ InFile(m)
          /\ m \in DOMAIN processed_emails
          /\ processed_emails[m] = state_file.entries[m]

\* C9: a crash or an interrupt while the ledger is being saved leaves a
\* complete document in the state file, never a partial one.
C9_InterruptedSaveKeepsFile ==
    [][(pc = "save_write" /\ pc' \in {"down", "stopped"})
         => state_file'.kind # "partial"]_vars

\* C10: if writing the state file fails, _save_state does not raise:
\* process_email returns what it returns when the write succeeds, the id
\* stays in the in-memory ledger, and later calls for that message in the
\* same process are skipped without a classifier call.
C10_WriteFailureNotFatal ==
    [][/\ ev' \in SaveEndEvents
            => /\ result' = (IF ret THEN "True" ELSE "False")
               /\ pc' \in {"idle", "batch", "sleep"}
               /\ UNCHANGED processed_emails
               /\ cur.id \in DOMAIN processed_emails'
       /\ SkipsRecorded]_vars

\* an id whose write failed is in the ledger, not in the file, and is skipped
C10_Witness ==
    /\ ev = "skip"
    /\ cur.id \in DOMAIN processed_emails
    /\ ~InFile(cur.id)

\* C11: for every content of the state file and every retention setting,
\* _load_state does not raise and returns a mapping from message ids to
\* timestamps, the empty one when the file is absent or cannot be decoded.
C11_LoadReturnsMapping ==
    (call.fn = "_load_state" /\ out # NoOut)
        => /\ out.kind = "returned"
           /\ out.val \in Ledgers
           /\ call.arg.kind \in {"absent", "partial", "garbage"}
                 => out.val = EmptyLedger

\* C12: with retention_days > 0 _cleanup_old_state returns exactly the
\* entries whose timestamp is at or after now - retention_days, with their
\* timestamps; with retention_days <= 0 it returns every entry unchanged;
\* what _load_state returns is within the retention window, or retention is
\* disabled.
C12_CleanupKeepsWindow ==
    /\ (call.fn = "_cleanup_old_state" /\ out # NoOut)
         => /\ out.kind = "returned"
            /\ retention_days <= 0 => out.val = call.arg
            /\ retention_days > 0 =>
                 /\ DOMAIN out.val \subseteq DOMAIN call.arg
                 /\ \A i \in DOMAIN call.arg :
                       /\ i \in DOMAIN out.val => out.val[i] = call.arg[i]
                       /\ call.arg[i] \in 0..MaxDay =>
                             (i \in DOMAIN out.val
                                <=> call.arg[i] >= now - retention_days)
                       /\ call.arg[i] = BadTs => i \notin DOMAIN out.val
    /\ (call.fn = "_load_state" /\ out # NoOut /\ retention_days > 0)
         => \A i \in DOMAIN out.val :
               out.val[i] \in 0..MaxDay /\ out.val[i] >= now - retention_days

\* _cleanup_old_state removed an old entry and kept one of the cutoff day
C12_Witness ==
    /\ call.fn = "_cleanup_old_state"
    /\ out # NoOut
    /\ retention_days > 0
    /\ \E i, j \in DOMAIN call.arg :
          /\ call.arg[i] \in 0..MaxDay
          /\ call.arg[i] < now - retention_days
          /\ i \notin DOMAIN out.val
          /\ call.arg[j] = now - retention_days
          /\ j \in DOMAIN out.val

\* C13: loading a legacy state file (a bare list of ids) gives a ledger whose
\* keys are exactly the ids of the list, each with the load-time timestamp;
\* the pruning of that load removes none of them.
C13_LegacyListMigrated ==
    (call.fn = "_load_state" /\ call.arg.kind = "list" /\ out # NoOut)
        => /\ out.kind = "returned"
           /\ DOMAIN out.val = DOMAIN call.arg.entries
           /\ \A i \in DOMAIN out.val : out.val[i] = now

C13_Witness ==
    /\ call.fn = "_load_state"
    /\ call.arg.kind = "list"
    /\ out # NoOut
    /\ retention_days > 0
    /\ now > retention_days
    /\ Cardinality(DOMAIN out.val) >= 2

\* C14: an exception other than the interrupt raised in a cycle body never
\* ends the loop of run_continuous: the loop sleeps and starts another
\* cycle; the loop ends only on an interrupt, after which no message is
\* processed.  (A step "crash" is the process being killed, not the loop
\* ending.)
C14_OnlyInterruptEndsLoop ==
    [][/\ (running /\ ~running' /\ ev' # "crash") => ev' = "interrupt"
       /\ ev' = "cycle_error" => (running' /\ pc' = "sleep")
       /\ (pc = "sleep" /\ running' ) => pc' = "loop_top"
       /\ pc = "stopped" => ev' \notin ProcessEvents \cup ApplyCallEvents]_vars

Spellings(name) ==
    CASE name = "bedrock" -> {"bedrock", "Bedrock", "BEDROCK"}
      [] name = "anthropic" -> {"anthropic", "Anthropic", "ANTHROPIC"}
      [] name = "openai" -> {"openai", "OpenAI", "OPENAI"}
      [] name = "ollama" -> {"ollama", "Ollama", "OLLAMA"}

VariantOf(name) ==
    CASE name = "bedrock" -> "BedrockProvider"
      [] name = "anthropic" -> "AnthropicProvider"
      [] name = "openai" -> "OpenAIProvider"
      [] name = "ollama" -> "OllamaProvider"

KeyMissing(cfg, name) ==
    \/ name = "anthropic" /\ cfg.ANTHROPIC_API_KEY \in {"None", ""}
    \/ name = "openai" /\ cfg.OPENAI_API_KEY \in {"None", ""}

\* C16: create_llm_provider returns the variant whose name equals the
\* discriminator up to case; it raises ValueError for any other
\* discriminator, and for anthropic or openai without their API key, and
\* then has constructed no provider.
C16_FactorySelectsVariant ==
    (call.fn = "create_llm_provider" /\ out.kind # "none")
        => LET names == {"bedrock", "anthropic", "openai", "ollama"}
               d == call.arg.LLM_PROVIDER
           IN  /\ \A name \in names :
                     (d \in Spellings(name) /\ ~KeyMissing(call.arg, name))
                        => /\ out.kind = "returned"
                           /\ out.val.name = VariantOf(name)
                           /\ out.val.constructed = {VariantOf(name)}
               /\ (\/ \A name \in names : d \notin Spellings(name)
                   \/ \E name \in names : d \in Spellings(name) /\ KeyMissing(call.arg, name))
                     => /\ out.kind = "raised"
                        /\ out.val.name = "ValueError"
                        /\ out.val.constructed = {}

C16_Witness ==
    /\ call.fn = "create_llm_provider"
    /\ call.arg.LLM_PROVIDER = "OpenAI"
    /\ call.arg.OPENAI_API_KEY = "sk-1"
    /\ out.kind = "returned"
    /\ out.val.name = "OpenAIProvider"

\* the call of parse_labels_from_response has returned or raised
Parsed == call.fn = "parse_labels_from_response" /\ out.kind # "none"

\* the array A of a document that is {"labels": A} or the bare array A
IsLabelsDoc(doc) ==
    \/ doc.t = "arr"
    \/ doc.t = "obj" /\ HasKey(doc, "labels") /\ Get(doc, "labels").t = "arr"

LabelsOf(doc) == IF doc.t = "arr" THEN doc.items ELSE Get(doc, "labels").items

Matches(x) == x.t = "str" /\ \E l \in LabelSet : Lower(l) = Lower(x.v)

\* A without its non-strings and its strings that match no label, each
\* remaining string replaced by the catalog's spelling
ExpectedLabels(A) ==
    LET kept == SelectSeq(A, Matches)
    IN  [n \in 1..Len(kept) |-> CHOOSE l \in LabelSet : Lower(l) = Lower(kept[n].v)]

\* C17: for a response that decodes to {"labels": A} or to a bare array A,
\* parse_labels_from_response returns A without its non-string entries and
\* its strings matching no catalog label, each remaining string in the
\* catalog's casing, in order, duplicates kept; every element of the result
\* is a catalog label.
C17_ExactFilteredLabels ==
    (Parsed /\ call.arg.wrap = "plain" /\ IsLabelsDoc(call.arg.doc))
        => /\ out.kind = "returned"
           /\ out.val = ExpectedLabels(LabelsOf(call.arg.doc))
           /\ \A n \in 1..Len(out.val) : out.val[n] \in LabelSet

\* C18: parse_labels_from_response never raises; it returns the empty list
\* for a text that holds no JSON, for a decoded value that is neither an
\* object with a labels key nor an array, and for a labels field that is not
\* a list.
C18_MalformedGivesEmpty ==
    Parsed
        => /\ out.kind = "returned"
           /\ call.arg.wrap = "undecodable" => out.val = <<>>
           /\ (call.arg.wrap = "plain" /\ ~IsLabelsDoc(call.arg.doc)) => out.val = <<>>

\* C19: a JSON response wrapped in fences, with or without a
\* language tag, or preceded or followed by prose, parses to the same result
\* as the JSON alone.
C19_WrappedParsesAlike ==
    (Parsed /\ call.arg.wrap \in Wrappings \ {"plain"})
        => out.val = ParseLabels(Dumps(call.arg.doc), LABELS)

C21_ProvidersAgree ==
    (call.fn = "classify_email" /\ out.kind # "none" /\ call.arg.backend.kind = "text")
        => out = Returned(ParseLabels(call.arg.backend.text, LABELS))

\* C22: process_email on a message with no identifier returns False, makes
\* no classifier call and no mailbox call, and leaves the in-memory ledger
\* and the state file unchanged.
C22_NoIdRejected ==
    [][(ProcessStep /\ cur'.id = NoId)
         => /\ result' = "False"
            /\ ev' = "no_id"
            /\ pc' = pc
            /\ UNCHANGED <<processed_emails, state_file, labelled, label_called>>]_vars

\* a message without an id was rejected by an agent whose ledger and state
\* file hold an entry
C22_Witness ==
    /\ ev = "no_id"
    /\ result = "False"
    /\ cur.id = NoId
    /\ \E m \in Ids : m \in DOMAIN processed_emails /\ InFile(m)

\* the ids, in order, of the names of L that have an entry in map
MappedIds(L, map) ==
    LET Mapped(name) == name \in DOMAIN map
        kept == SelectSeq(L, Mapped)
    IN  [n \in 1..Len(kept) |-> map[kept[n]]]

\* the backend text 'Based on this: {"labels": ["aws","Unknown"]}' with the
\* catalog AWS, Finance, Work, every label of which has a Gmail id
ExampleCatalog == <<"AWS", "Finance", "Work">>

ExampleText ==
    <<Word("Based"), Word("on"), Word("this:")>>
        \o Dumps(LabelsObj(Arr(<<Str("aws"), Str("Unknown")>>)))

ExampleApplied ==
    LabelIdsOf(ParseLabels(ExampleText, ExampleCatalog),
               LabelIdMap({"AWS", "Finance", "Work"}))

\* what C23 says of the steps of process_email in Calls (steps from "apply"
\* in which the mailbox is called), for a non-empty classifier result
LabelsApplied(Calls) ==
    /\ ev' = "classify_labels"
         => /\ predicted_labels' # <<>>
            /\ label_ids' = MappedIds(predicted_labels', label_id_map)
            /\ pc' = "apply"
    /\ (pc = "apply" /\ ev' \in Calls)
         => /\ label_ids # <<>>
            /\ label_ids = MappedIds(predicted_labels, label_id_map)
            /\ cur.id \in DOMAIN processed_emails'
            /\ ret'
            /\ pc' = "save_open"
    /\ (pc = "apply" /\ label_ids = <<>> /\ ev' \notin {"crash", "interrupt"})
         => /\ ev' = "no_label_ids"
            /\ UNCHANGED <<labelled, label_called>>
            /\ cur.id \in DOMAIN processed_emails'
            /\ ret'
            /\ pc' = "save_open"
    /\ (pc \in {"save_open", "save_write"} /\ ret /\ ev' \in SaveEndEvents)
         => result' = "True"
    /\ ExampleApplied = <<GmailLabelId("AWS")>>

\* C23 (as stated): for a non-empty classifier result the label ids passed
\* to the mailbox are exactly the mapped ids of the returned names that have
\* an entry in the label-id map; the message is then recorded in the ledger
\* and process_email returns True, also when no id remains, in which case no
\* mailbox call is made; the example text gives exactly the id of AWS.
C23_MappedIdsAppliedAndRecorded == [][LabelsApplied(ApplyCallEvents)]_vars

\* C23 (amended): the same, the message being recorded and True returned
\* unless the mailbox call raises an exception (other than the HttpError
\* that add_labels_to_message catches itself).
C23_MappedIdsAppliedRecordedUnlessRaise ==
    [][LabelsApplied(ApplyCallEvents \ {"apply_raise"})]_vars

\* the label AWS could not be created: of the returned AWS, Finance only the
\* id of Finance was applied, and the message is recorded
C23_Witness ==
    /\ ev = "apply_ok"
    /\ "AWS" \notin DOMAIN label_id_map
    /\ cur.id \in labelled
    /\ cur.id \in DOMAIN processed_emails
    /\ ret

\* C24: whenever pruning removes entries from the in-memory ledger (at load
\* time or at the start of a poll cycle), the pruned ledger is flushed to
\* the state file: when the cycle is over and the next one is about to
\* begin, the state file holds no id that pruning removed from the ledger,
\* even if no message was recorded in that cycle.
C24_PruneFlushed ==
    (running /\ pc = "loop_top" /\ ev = "sleep")
        => \A m \in Ids : InFile(m) => m \in DOMAIN processed_emails

\* _cleanup_old_state has returned, or _load_state has on a state file of
\* the current format
Pruned ==
    /\ out.kind # "none"
    /\ \/ call.fn = "_cleanup_old_state"
       \/ call.fn = "_load_state" /\ call.arg.kind = "dict"

\* C25 (as stated): _cleanup_old_state drops every entry whose timestamp
\* cannot be parsed, for every retention setting, a non-positive one
\* included; no such entry is in the ledger after load or after pruning.
C25_CorruptEntriesDropped ==
    Pruned => \A i \in DOMAIN out.val : out.val[i] # BadTs

\* C25 (amended): with retention_days > 0 _cleanup_old_state drops every
\* entry whose timestamp cannot be parsed, and no such entry is in the
\* ledger after load or after pruning; with a non-positive retention period
\* pruning is disabled and these entries are kept like every other.
C25_CorruptEntriesDroppedWhenPruning ==
    Pruned
        => LET given == IF call.fn = "_load_state" THEN call.arg.entries ELSE call.arg
           IN  /\ retention_days > 0 => \A i \in DOMAIN out.val : out.val[i] # BadTs
               /\ retention_days <= 0 => out.val = given

\* pruning dropped a corrupt entry and kept a recent one
C25_Witness ==
    /\ call.fn = "_cleanup_old_state"
    /\ out.kind # "none"
    /\ retention_days > 0
    /\ \E i, j \in DOMAIN call.arg :
          /\ call.arg[i] = BadTs
          /\ i \notin DOMAIN out.val
          /\ j \in DOMAIN out.val

\* C26: a message is removed from the inbox only by the mailbox call that
\* applies a non-empty list of label ids to it, and only when
\* REMOVE_FROM_INBOX is set: over any sequence of process_email calls no
\* message is archived with an empty label list, after an empty
\* classification, or on the already-processed path.
C26_ArchivedOnlyWithLabels ==
    [][LET before == Inbox(labelled, remove_from_inbox)
           after == Inbox(labelled', remove_from_inbox)
       IN  /\ after # before
                => /\ remove_from_inbox
                   /\ pc = "apply"
                   /\ ev' = "apply_ok"
                   /\ label_ids # <<>>
                   /\ before \ after = {cur.id}
           /\ ev' \in {"no_id", "skip", "key_error", "classify_empty",
                       "classify_backend_error", "no_label_ids"}
                => after = before]_vars

\* one message was labelled and archived; another, classified with no
\* label, is recorded and still in the inbox
C26_Witness ==
    /\ remove_from_inbox
    /\ \E m, n \in Ids :
          /\ m \notin Inbox(labelled, remove_from_inbox)
          /\ n \in DOMAIN processed_emails
          /\ n \in Inbox(labelled, remove_from_inbox)
    /\ ev = "skip"

\* C27: the mailbox listing its unread messages in a fixed order, at most
\* MAX_EMAILS_PER_POLL of them per poll, every unread message of the mailbox
\* is eventually passed to process_email and recorded in the ledger, also
\* when the mailbox holds more unread messages than one poll returns.
C27_EveryUnreadProcessed ==
    \A m \in Ids : <>(cur.id = m /\ m \in DOMAIN processed_emails)

\* C28: the list of label ids that process_email passes to
\* add_labels_to_message contains each label id at most once, for every
\* label list the classifier can return, lists with a repeated name
\* included.
C28_LabelIdsDistinct ==
    pc = "apply"
        => \A i, j \in 1..Len(label_ids) : label_ids[i] = label_ids[j] => i = j

\* C29: process_email on a message whose id is already in the ledger leaves
\* that entry's timestamp and every other ledger entry unchanged, does not
\* write the state file and makes no mailbox call; the timestamp of an entry
\* is never refreshed after it is first written (a restarted agent reads it
\* back from the state file), so pruning removes the entry once
\* retention_days have passed since its first processing.
C29_RecordedEntryFrozen ==
    [][/\ (ProcessStep /\ cur'.id # NoId /\ cur'.id \in DOMAIN processed_emails)
            => /\ UNCHANGED <<processed_emails, state_file, labelled, label_called>>
               /\ pc' \notin {"apply", "save_open", "save_write"}
       /\ \A m \in DOMAIN processed_emails \cap DOMAIN processed_emails' :
             processed_emails'[m] = processed_emails[m]
       /\ ev' = "start"
            => \A m \in DOMAIN processed_emails' :
                  InFile(m) /\ processed_emails'[m] = state_file.entries[m]
       /\ (ev' \in {"poll", "cycle_error"} /\ retention_days > 0)
            => \A m \in DOMAIN processed_emails :
                  m \in DOMAIN processed_emails'
                     <=> processed_emails[m] >= now - retention_days]_vars

\* a message recorded on an earlier day is skipped, its entry as it was
\* written
C29_Witness ==
    /\ ev = "skip"
    /\ cur.id \in DOMAIN processed_emails
    /\ processed_emails[cur.id] < now
    /\ InFile(cur.id)
    /\ state_file.entries[cur.id] = processed_emails[cur.id]

\* C30: migration of a legacy state file takes effect once: with
\* retention_days > 0 an id loaded from a legacy list is removed by pruning
\* once retention_days have passed since the first load that migrated it,
\* whatever number of restarts lie in between: a restart does not give the
\* id a new timestamp.  (The agent is first started, and the list first
\* migrated, on day 0; a load of the list after day retention_days must
\* therefore leave none of its ids in the ledger.)
C30_MigratedOnce ==
    [][(ev' = "start" /\ state_file.kind = "list"
          /\ retention_days > 0 /\ now > retention_days)
         => \A m \in DOMAIN state_file.entries : m \notin DOMAIN processed_emails']_vars

====
